---- MODULE Spec2Model ----
(***************************************************************************)
(* Model of src/url.py: the product extractor of a Kolon Mall listing page *)
(* (anchor scan, embedded Apollo state scan, merge) and the Streamlit      *)
(* session around it (search form, prev/next page navigation).             *)
(*                                                                         *)
(* Text is modelled as a sequence of tokens: a token is a run of           *)
(* characters none of the code's patterns looks into, or one of the        *)
(* substrings the code searches for ("/Product/", ".push(", ")", "?",      *)
(* "&", "page=", a digit, the mall prefix).  Python's None is the value    *)
(* None below, which no text equals.                                       *)
(***************************************************************************)
EXTENDS Integers, Sequences, FiniteSets, TLC

VARIABLES
    soup,           \* the parsed document handed to the extractors
    ret,            \* what the extractor under study returned for soup
    pc,             \* "start" before the extractor ran, "done" after
    current_page,   \* st.session_state.current_page
    last_url,       \* st.session_state.last_url
    products,       \* st.session_state.products
    act,            \* the last user action, as the session handled it
    requested,      \* the URLs of the HTTP GETs the last user action issued
    response,       \* the response to the most recent HTTP GET
    shown           \* the st.error message the last user action displayed

vars == <<soup, ret, pc, current_page, last_url, products, act, requested,
          response, shown>>

None == <<"<None>">>

\* ------------------------------------------------------------------ bounds

MaxAnchors == 3
MaxScripts == 3
MaxMergeAnchors == 2
MaxMergeScripts == 2
MaxParams == 2
MaxPage == 3

\* ------------------------------------------------- Python helpers (dict, str)

\* The first position of x in s.
IndexOf(s, x) == CHOOSE i \in 1..Len(s) : s[i] = x /\ \A j \in 1..(i-1) : s[j] # x

Contains(s, x) == \E i \in 1..Len(s) : s[i] = x

\* A Python dict keyed by 'code' is the sequence of its values in insertion
\* order; every value carries its key in the field code.
Keys(d) == [i \in 1..Len(d) |-> d[i].code]

HasKey(d, k) == \E i \in 1..Len(d) : d[i].code = k

\* A list that takes every value, where the dict holds one value per key.
DictSetAppend(d, k, v) == Append(d, v)

\* d[k] = v: a new key goes last, an existing key keeps its place and takes
\* the new value.
DictSet(d, k, v) ==
    IF HasKey(d, k)
    THEN [i \in 1..Len(d) |-> IF d[i].code = k THEN v ELSE d[i]]
    ELSE Append(d, v)

\* str.split(sep): the parts between the occurrences of sep.
RECURSIVE split(_, _)
split(s, sep) ==
    IF Contains(s, sep)
    THEN LET i == IndexOf(s, sep)
         IN  <<SubSeq(s, 1, i - 1)>> \o split(SubSeq(s, i + 1, Len(s)), sep)
    ELSE <<s>>

\* ---------------------------------------------------------- DOM extractor

ProductMarker == "/Product/"

\* An anchor element: its href attribute (when it has one) and its first
\* nested img element (when it has one) with that element's src and alt.
Anchor(hasHref, href, hasImg, src, alt) ==
    [hasHref |-> hasHref, href |-> href, hasImg |-> hasImg, src |-> src, alt |-> alt]

\* The record line 98 builds for an anchor whose href holds the marker.
AnchorCode(a) == split(a.href, ProductMarker)[2]

AnchorRecord(a) ==
    [code  |-> AnchorCode(a),
     image |-> IF a.hasImg THEN a.src ELSE None,
     name  |-> IF a.hasImg THEN a.alt ELSE <<"Unknown Product">>]

\* soup.find_all('a', href=True) and the test of line 86.
IsProductAnchor(a) == a.hasHref /\ Contains(a.href, ProductMarker)

\* The loop of lines 82-98 over the anchors in document order, from the
\* dict html_products built so far.
RECURSIVE HtmlProducts(_, _)
HtmlProducts(anchors, html_products) ==
    IF anchors = <<>> THEN html_products
    ELSE LET a == Head(anchors)
             next == IF IsProductAnchor(a) /\ Len(split(a.href, ProductMarker)) > 1
                     THEN DictSet(html_products, AnchorCode(a), AnchorRecord(a))
                     ELSE html_products
         IN  HtmlProducts(Tail(anchors), next)

\* -------------------------------------------------- embedded-state extractor

\* JSON text and the value json.loads makes of it are trees of tagged nodes:
\* an object is its key/value pairs in source order, a string its tokens.
\* "undefined" is the JavaScript literal, which is not JSON until line 30
\* rewrites it; "garbage" is any other text json.loads rejects.
JNull == [t |-> "null"]
JUndefined == [t |-> "undefined"]
JGarbage == [t |-> "garbage"]
JStr(s) == [t |-> "str", s |-> s]
JList(items) == [t |-> "list", items |-> items]
JObj(kv) == [t |-> "obj", kv |-> kv]

\* A token of a script's text: the marker, the call's ".push(", a ")",
\* whitespace, one JSON text (v), or other text.
Tok(t) == [t |-> t, v |-> JNull]
TokJson(v) == [t |-> "json", v |-> v]

Script(hasString, string) == [hasString |-> hasString, string |-> string]

\* str.find / str.rfind of a one-token pattern: a position from 1, or -1.
find(content, t) ==
    IF \E i \in 1..Len(content) : content[i].t = t
    THEN CHOOSE i \in 1..Len(content) :
            content[i].t = t /\ \A j \in 1..(i-1) : content[j].t # t
    ELSE -1

rfind(content, t) ==
    IF \E i \in 1..Len(content) : content[i].t = t
    THEN CHOOSE i \in 1..Len(content) :
            content[i].t = t /\ \A j \in (i+1)..Len(content) : content[j].t # t
    ELSE -1

\* content[start_json:end_json] of line 28: the tokens after ".push(" and
\* before the last ")"; with no ")" rfind gives -1 and the slice drops the
\* last token.
JsonSlice(content) ==
    LET start_idx == find(content, "push")
        end_json == rfind(content, "rparen")
        last == IF end_json = -1 THEN Len(content) - 1 ELSE end_json - 1
    IN  SubSeq(content, start_idx + 1, last)

\* 'undefined' -> 'null' inside one JSON text.
RECURSIVE ReplaceUndefined(_)
ReplaceUndefined(v) ==
    CASE v.t = "undefined" -> JNull
      [] v.t = "list" -> JList([i \in 1..Len(v.items) |-> ReplaceUndefined(v.items[i])])
      [] v.t = "obj" -> JObj([i \in 1..Len(v.kv) |-> <<v.kv[i][1], ReplaceUndefined(v.kv[i][2])>>])
      [] OTHER -> v

\* json_str.replace('undefined', 'null') of line 30.
ReplaceInSlice(json_str) ==
    [i \in 1..Len(json_str) |->
        IF json_str[i].t = "json" THEN TokJson(ReplaceUndefined(json_str[i].v))
        ELSE json_str[i]]

\* Whether json.loads accepts the text of one value.
RECURSIVE IsJson(_)
IsJson(v) ==
    CASE v.t \in {"undefined", "garbage"} -> FALSE
      [] v.t = "list" -> \A i \in 1..Len(v.items) : IsJson(v.items[i])
      [] v.t = "obj" -> \A i \in 1..Len(v.kv) : IsJson(v.kv[i][2])
      [] OTHER -> TRUE

\* json.loads(json_str) of line 32: ok with the value when the text is one
\* JSON text between optional whitespace, and a raised JSONDecodeError
\* otherwise.
Loads(json_str) ==
    LET body == SelectSeq(json_str, LAMBDA k : k.t # "ws")
    IN  IF Len(body) = 1 /\ body[1].t = "json" /\ IsJson(body[1].v)
        THEN [ok |-> TRUE, data |-> body[1].v]
        ELSE [ok |-> FALSE, data |-> JNull]

\* obj.get(key) on a parsed JSON object (None, read as null, when absent).
Get(obj, key) ==
    IF \E i \in 1..Len(obj.kv) : obj.kv[i][1] = key
    THEN obj.kv[CHOOSE i \in 1..Len(obj.kv) : obj.kv[i][1] = key][2]
    ELSE JNull

\* Python truth value, and whether the value can be a dict key.
Truthy(v) ==
    CASE v.t = "str" -> v.s # <<>>
      [] v.t = "list" -> v.items # <<>>
      [] v.t = "obj" -> v.kv # <<>>
      [] OTHER -> FALSE

Hashable(v) == v.t \notin {"list", "obj"}

\* A JSON scalar as the value stored in a product record.
ToPy(v) == IF v.t = "str" THEN v.s ELSE None

\* search_for_products of lines 35-49.  st is the dict products_db with the
\* flag exc: an exception (the TypeError of an unhashable code at line 43)
\* was raised and is unwinding the recursion.
RECURSIVE search_for_products(_, _), search_each(_, _)
search_for_products(obj, st) ==
    IF st.exc THEN st
    ELSE IF obj.t = "obj"
    THEN LET code == Get(obj, "code")
             isProduct == Get(obj, "__typename") = JStr(<<"Product">>)
             st1 == IF isProduct /\ Truthy(code)
                    THEN IF Hashable(code)
                         THEN [db |-> DictSet(st.db, ToPy(code),
                                         [code |-> ToPy(code),
                                          name |-> ToPy(Get(obj, "name")),
                                          image |-> ToPy(Get(obj, "representationImage"))]),
                               exc |-> FALSE]
                         ELSE [db |-> st.db, exc |-> TRUE]
                    ELSE st
         IN  search_each([i \in 1..Len(obj.kv) |-> obj.kv[i][2]], st1)
    ELSE IF obj.t = "list" THEN search_each(obj.items, st)
    ELSE st

search_each(items, st) ==
    IF items = <<>> THEN st
    ELSE search_each(Tail(items), search_for_products(Head(items), st))

\* Line 16: the scripts that have a string holding the marker.
IsApolloScript(s) == s.hasString /\ \E i \in 1..Len(s.string) : s.string[i].t = "marker"

\* An except clause that stops the loop at the block that raised.
ExceptBreak(products_db, rest) == [db |-> products_db, rest |-> <<>>, exc |-> FALSE]

\* The except clause of lines 53-54: the block is dropped and the loop goes
\* on, with products_db as the block left it.
ExceptContinue(products_db, rest) == [db |-> products_db, rest |-> rest, exc |-> FALSE]

\* One block of the loop of lines 18-54: products_db after the block, the
\* blocks still to visit, and whether an exception leaves the function.
ScriptStep(content, products_db, rest) ==
    IF find(content, "push") = -1
    THEN [db |-> products_db, rest |-> rest, exc |-> FALSE]
    ELSE LET loaded == Loads(ReplaceInSlice(JsonSlice(content)))
         IN  IF ~loaded.ok THEN ExceptContinue(products_db, rest)
             ELSE LET st == search_for_products(loaded.data,
                                                [db |-> products_db, exc |-> FALSE])
                  IN  IF st.exc THEN ExceptContinue(st.db, rest)
                      ELSE [db |-> st.db, rest |-> rest, exc |-> FALSE]

RECURSIVE ApolloLoop(_, _)
ApolloLoop(apollo_scripts, products_db) ==
    IF apollo_scripts = <<>> THEN [db |-> products_db, exc |-> FALSE]
    ELSE LET step == ScriptStep(Head(apollo_scripts).string, products_db,
                                Tail(apollo_scripts))
         IN  IF step.exc THEN [db |-> step.db, exc |-> TRUE]
             ELSE ApolloLoop(step.rest, step.db)

\* parse_apollo_data(soup) of lines 8-56: the dict returned, or exc when an
\* exception leaves the function.
parse_apollo_data(scripts) == ApolloLoop(SelectSeq(scripts, IsApolloScript), <<>>)

\* ------------------------------------------------------ extract_product_urls

\* A union of both sources: the embedded-state records, then the records of
\* the anchors whose identifier the embedded state lacks.
MergeUnion(apollo_products, html_products) ==
    apollo_products \o SelectSeq(html_products, LAMBDA r : ~HasKey(apollo_products, r.code))

\* Lines 114-120: list(apollo_products.values()) when that dict is non-empty,
\* list(html_products.values()) otherwise.
Merge(apollo_products, html_products) ==
    IF apollo_products # <<>> THEN apollo_products ELSE html_products

\* The outcomes of requests.get and raise_for_status that raise a
\* requests.exceptions.RequestException, and the other exceptions the try
\* block can raise (the HTML parser's, or one out of parse_apollo_data).
RequestExceptions == {"ConnectionError", "Timeout", "HTTPError", "InvalidURL"}
OtherExceptions == {"ParserError"}

Response(kind, page) == [kind |-> kind, page |-> page]

Page(anchors, scripts) == [anchors |-> anchors, scripts |-> scripts]

\* The try block of lines 67-120 on the response to the GET: the list
\* returned, or the exception raised.
TryBody(resp) ==
    IF resp.kind # "ok" THEN [exc |-> resp.kind, val |-> <<>>]
    ELSE LET apollo_products == parse_apollo_data(resp.page.scripts)
             html_products == HtmlProducts(resp.page.anchors, <<>>)
         IN  IF apollo_products.exc THEN [exc |-> "Exception", val |-> <<>>]
             ELSE [exc |-> "none", val |-> Merge(apollo_products.db, html_products)]

\* Only the first except clause: any other exception leaves the function.
ExceptRequestOnly(exc) ==
    IF exc \in RequestExceptions
    THEN [ret |-> <<>>, shown |-> "Error fetching URL", raised |-> FALSE]
    ELSE [ret |-> <<>>, shown |-> "Traceback", raised |-> TRUE]

\* The except clauses of lines 122-127.
ExceptClauses(exc) ==
    IF exc \in RequestExceptions
    THEN [ret |-> <<>>, shown |-> "Error fetching URL", raised |-> FALSE]
    ELSE [ret |-> <<>>, shown |-> "An error occurred", raised |-> FALSE]

\* extract_product_urls(url) of lines 58-127, given the response to its GET:
\* the list returned, the st.error shown, and whether an exception reaches
\* the caller.
extract_product_urls(resp) ==
    LET body == TryBody(resp)
    IN  IF body.exc = "none"
        THEN [ret |-> body.val, shown |-> "none", raised |-> FALSE]
        ELSE ExceptClauses(body.exc)


\* ------------------------------------------------------------------ session

MallPrefix == "https://www.kolonmall.com/"

Digits == <<"0", "1", "2", "3", "4", "5", "6", "7", "8", "9">>

IsDigit(c) == \E i \in 1..Len(Digits) : Digits[i] = c

\* str(n) of the f-string of line 305.
RECURSIVE Str(_)
Str(n) == IF n < 10 THEN <<Digits[n + 1]>> ELSE Str(n \div 10) \o <<Digits[(n % 10) + 1]>>

\* url_input.strip() of line 195.
RECURSIVE strip(_)
strip(u) ==
    IF u # <<>> /\ Head(u) = " " THEN strip(Tail(u))
    ELSE IF u # <<>> /\ u[Len(u)] = " " THEN strip(SubSeq(u, 1, Len(u) - 1))
    ELSE u

RECURSIVE DropDigits(_)
DropDigits(u) == IF u # <<>> /\ IsDigit(Head(u)) THEN DropDigits(Tail(u)) ELSE u

\* re.sub(r'[&?]page=\d+', '', base_url) of line 303: every match, from the
\* left, of a '&' or '?', then 'page=', then the digits that follow, is cut.
RECURSIVE ReSubPage(_)
ReSubPage(u) ==
    IF u = <<>> THEN <<>>
    ELSE IF Len(u) >= 3 /\ u[1] \in {"&", "?"} /\ u[2] = "page=" /\ IsDigit(u[3])
    THEN ReSubPage(DropDigits(SubSeq(u, 3, Len(u))))
    ELSE <<Head(u)>> \o ReSubPage(Tail(u))

\* target_url of lines 301-305.
TargetUrl(base_url, page) ==
    LET clean_url == ReSubPage(base_url)
        sep == IF Contains(clean_url, "?") THEN "&" ELSE "?"
    IN  clean_url \o <<sep, "page=">> \o Str(page)

\* A set_page_rel without the lower clamp of line 293.
NewPageUnclamped(direction) ==
    IF direction = "prev" THEN current_page - 1
    ELSE IF direction = "next" THEN current_page + 1
    ELSE current_page

\* new_page of lines 292-296.
NewPage(direction) ==
    IF direction = "prev" /\ current_page > 1 THEN current_page - 1
    ELSE IF direction = "next" THEN current_page + 1
    ELSE current_page

\* A navigation bar rendered whatever the product list holds.
NavRenderedAlways == TRUE

\* Line 214: the block that renders the prev and next buttons runs only
\* when st.session_state.products is non-empty.
NavRendered == products # <<>>

\* Line 322: the prev button's disabled flag.
PrevDisabled == current_page <= 1

\* Line 185 and line 205: the first page.
FirstPage == 1

\* A product list that keeps the records of the pages seen before.
AssignProductsAccumulate(old, new) == old \o new

\* st.session_state.products = <the list returned>, lines 208 and 308.
AssignProducts(old, new) == new

Action(kind, url, from) == [kind |-> kind, url |-> url, from |-> from]

\* A second GET of the same URL when the first one failed.
FetchRetry(url, resp) == IF resp.kind = "ok" THEN <<url>> ELSE <<url, url>>

\* The GETs one call of extract_product_urls issues (line 72).
Fetch(url, resp) == <<url>>

\* A call of extract_product_urls(url) from the session, with resp the
\* response its GET meets; an exception that reached the caller would leave
\* products unassigned and show as a traceback.
CallExtract(url, resp) ==
    LET r == extract_product_urls(resp)
    IN  /\ requested' = Fetch(url, resp)
        /\ response' = resp
        /\ shown' = r.shown
        /\ products' = IF r.raised THEN products ELSE AssignProducts(products, r.ret)


\* ------------------------------------------------------------------- inputs

SeqsUpTo(S, n) == UNION {[1..k -> S] : k \in 0..n}

\* Anchors: identifiers A1 and A2 with and without a nested image, an image
\* without alt text, an absolute href, a second marker in the href, a query
\* after the identifier, an empty identifier, no marker, no href.
AnchorInputs ==
    { Anchor(TRUE, <<ProductMarker, "A1">>, TRUE, <<"t1.jpg">>, <<"Name 1">>),
      Anchor(TRUE, <<ProductMarker, "A1">>, FALSE, None, None),
      Anchor(TRUE, <<"https://www.kolonmall.com", ProductMarker, "A1">>, TRUE, <<"t1b.jpg">>, None),
      Anchor(TRUE, <<ProductMarker, "A2">>, TRUE, <<"t2.jpg">>, <<"Name 2">>),
      Anchor(TRUE, <<ProductMarker, "A2">>, FALSE, None, None),
      Anchor(TRUE, <<ProductMarker, "A1", ProductMarker, "A2">>, FALSE, None, None),
      Anchor(TRUE, <<ProductMarker, "A2", "?ref=top">>, TRUE, None, <<"Name 2">>),
      Anchor(TRUE, <<ProductMarker>>, FALSE, None, None),
      Anchor(TRUE, <<"/Category/", "A1">>, TRUE, <<"c.jpg">>, <<"Category">>),
      Anchor(FALSE, <<>>, TRUE, <<"t1.jpg">>, <<"Name 1">>) }

JProduct(code, name, image) ==
    JObj(<< <<"__typename", JStr(<<"Product">>)>>, <<"code", code>>,
            <<"name", name>>, <<"representationImage", image>> >>)

P1 == JProduct(JStr(<<"A1">>), JStr(<<"Apollo 1">>), JStr(<<"a1.jpg">>))
P2 == JProduct(JStr(<<"A2">>), JStr(<<"Apollo 2">>), JNull)
P3 == JProduct(JStr(<<"A3">>), JUndefined, JStr(<<"a3.jpg">>))

\* Payloads: products in a nested query result; a list that renames A2; a
\* product inside a product; literal undefined values; text json.loads
\* rejects; a product whose code is a list (unhashable) between two good
\* ones; objects that are no product or carry no usable code.
PayloadNested == JObj(<< <<"rehydrate", JObj(<< <<"q1", JList(<<P1, P2>>)>> >>)>> >>)
PayloadList == JList(<<JProduct(JStr(<<"A2">>), JStr(<<"Renamed 2">>), JStr(<<"a2.jpg">>)), P3>>)
PayloadInner ==
    JObj(<< <<"__typename", JStr(<<"Product">>)>>, <<"code", JStr(<<"A3">>)>>,
            <<"related", JList(<<P1>>)>> >>)
PayloadUndefined == JObj(<< <<"extra", JUndefined>>, <<"item", P3>> >>)
PayloadGarbage == JList(<<P1, JGarbage>>)
PayloadUnhashable ==
    JList(<<P3, JProduct(JList(<<JStr(<<"A2">>)>>), JNull, JNull), P1>>)
PayloadNoProduct ==
    JList(<< JObj(<< <<"__typename", JStr(<<"Category">>)>>, <<"code", JStr(<<"A1">>)>> >>),
             JProduct(JStr(<<>>), JStr(<<"No code">>), JNull),
             JObj(<< <<"__typename", JStr(<<"Product">>)>> >>) >>)

\* (window[Symbol.for("ApolloSSRDataTransport")] ??= []).push(<payload>)
Wrapped(payload) ==
    Script(TRUE, <<Tok("text"), Tok("marker"), Tok("rparen"), Tok("push"),
                   TokJson(payload), Tok("rparen")>>)

\* Scripts: the wrapped payloads; a script with child nodes (no string), one
\* without the marker, one with the marker and no .push(; a call with no
\* closing parenthesis, alone and followed by whitespace; a .push( with no
\* marker.
ScriptInputs ==
    { Wrapped(PayloadNested), Wrapped(PayloadList), Wrapped(PayloadInner),
      Wrapped(PayloadUndefined), Wrapped(PayloadGarbage), Wrapped(PayloadUnhashable),
      Wrapped(PayloadNoProduct),
      Script(FALSE, <<>>),
      Script(TRUE, <<Tok("text")>>),
      Script(TRUE, <<Tok("marker"), Tok("text")>>),
      Script(TRUE, <<Tok("marker"), Tok("push"), TokJson(PayloadNested)>>),
      Script(TRUE, <<Tok("marker"), Tok("push"), TokJson(PayloadList), Tok("ws")>>),
      Script(TRUE, <<Tok("text"), Tok("push"), TokJson(PayloadNested), Tok("rparen")>>) }

MergeAnchorInputs ==
    { Anchor(TRUE, <<ProductMarker, "A1">>, TRUE, <<"t1.jpg">>, <<"Name 1">>),
      Anchor(TRUE, <<ProductMarker, "A2">>, FALSE, None, None),
      Anchor(TRUE, <<ProductMarker, "A4">>, TRUE, <<"t4.jpg">>, <<"Name 4">>),
      Anchor(TRUE, <<"/Category/", "A1">>, FALSE, None, None) }

MergeScriptInputs ==
    { Wrapped(PayloadNested), Wrapped(PayloadInner), Wrapped(PayloadGarbage),
      Wrapped(PayloadNoProduct) }

\* The pages the mall serves in the session: no product, anchors only,
\* anchors and embedded state, anchors and a malformed embedded state.
PagesServed ==
    { Page(<<>>, <<>>),
      Page(<<Anchor(TRUE, <<ProductMarker, "A1">>, TRUE, <<"t1.jpg">>, <<"Name 1">>),
             Anchor(TRUE, <<ProductMarker, "A2">>, FALSE, None, None)>>, <<>>),
      Page(<<Anchor(TRUE, <<ProductMarker, "A4">>, FALSE, None, None)>>,
           <<Wrapped(PayloadNested)>>),
      Page(<<Anchor(TRUE, <<ProductMarker, "A2">>, FALSE, None, None)>>,
           <<Wrapped(PayloadGarbage)>>) }

Responses ==
    {Response("ok", page) : page \in PagesServed}
    \cup {Response(kind, Page(<<>>, <<>>)) : kind \in RequestExceptions \cup OtherExceptions}

\* The query parameters a listing URL carries: a page number, a sort order.
ParamInputs == { <<"page=", "2">>, <<"sort=new">> }

RECURSIVE Query(_)
Query(params) ==
    IF params = <<>> THEN <<>>
    ELSE IF Len(params) = 1 THEN <<"?">> \o params[1]
    ELSE Query(SubSeq(params, 1, Len(params) - 1)) \o <<"&">> \o params[Len(params)]

\* What the user submits: listing URLs of the mall with up to MaxParams
\* query parameters, one with a blank before it, a blank field, a field of
\* blanks, a URL of another site.
UrlInputs ==
    {<<MallPrefix, "Category/List">> \o Query(q) : q \in SeqsUpTo(ParamInputs, MaxParams)}
    \cup { <<" ", MallPrefix, "Category/List">>, <<>>, <<" ">>, <<"https://other.example/">> }

\* ------------------------------------------------------------------ actions

SessionIdle ==
    /\ current_page = FirstPage
    /\ last_url = <<>>
    /\ products = <<>>
    /\ act = Action("none", <<>>, FirstPage)
    /\ requested = <<>>
    /\ response = Response("none", Page(<<>>, <<>>))
    /\ shown = "none"

session == <<current_page, last_url, products, act, requested, response, shown>>

\* Lines 194-198: a blank field or a URL without the mall prefix is rejected
\* with a warning.
SubmitRejected(url_input) ==
    /\ strip(url_input) = <<>> \/ ~Contains(url_input, MallPrefix)
    /\ act' = Action("rejected", url_input, current_page)
    /\ requested' = <<>>
    /\ shown' = "none"
    /\ UNCHANGED <<current_page, last_url, products, response>>

\* Lines 199-208: an accepted search.
SubmitAccepted(url_input) ==
    /\ strip(url_input) # <<>>
    /\ Contains(url_input, MallPrefix)
    /\ last_url' = url_input
    /\ current_page' = FirstPage
    /\ act' = Action("search", url_input, current_page)
    /\ \E resp \in Responses : CallExtract(url_input, resp)

\* set_page_rel(direction) of lines 291-308, the on_click callback of the
\* prev and next buttons.
set_page_rel(direction) ==
    LET new_page == NewPage(direction)
    IN  IF new_page # current_page
        THEN /\ current_page' = new_page
             /\ act' = Action("nav", <<direction>>, current_page)
             /\ \E resp \in Responses : CallExtract(TargetUrl(last_url, new_page), resp)
             /\ UNCHANGED last_url
        ELSE /\ act' = Action("stay", <<direction>>, current_page)
             /\ requested' = <<>>
             /\ shown' = "none"
             /\ UNCHANGED <<current_page, last_url, products, response>>

\* A click on "<" (line 322): the button is there when the bar is rendered
\* and takes clicks when it is not disabled.
ClickPrev ==
    /\ NavRendered
    /\ ~PrevDisabled
    /\ set_page_rel("prev")

\* A click on ">" (line 325).
ClickNext ==
    /\ NavRendered
    /\ current_page < MaxPage
    /\ set_page_rel("next")

Init ==
    /\ soup = Page(<<>>, <<>>)
    /\ ret = <<>>
    /\ pc = "session"
    /\ SessionIdle

Next ==
    \/ \E url_input \in UrlInputs : SubmitRejected(url_input) /\ UNCHANGED <<soup, ret, pc>>
    \/ \E url_input \in UrlInputs : SubmitAccepted(url_input) /\ UNCHANGED <<soup, ret, pc>>
    \/ ClickPrev /\ UNCHANGED <<soup, ret, pc>>
    \/ ClickNext /\ UNCHANGED <<soup, ret, pc>>

Spec == Init /\ [][Next]_vars

\* The DOM extractor on every document of up to MaxAnchors anchors.
InitDom ==
    /\ soup \in {Page(a, <<>>) : a \in SeqsUpTo(AnchorInputs, MaxAnchors)}
    /\ ret = <<>>
    /\ pc = "start"
    /\ SessionIdle

RunDom ==
    /\ pc = "start"
    /\ ret' = HtmlProducts(soup.anchors, <<>>)
    /\ pc' = "done"
    /\ UNCHANGED <<soup, session>>

SpecDom == InitDom /\ [][RunDom]_vars

\* The embedded-state extractor on every document of up to MaxScripts scripts.
InitApollo ==
    /\ soup \in {Page(<<>>, s) : s \in SeqsUpTo(ScriptInputs, MaxScripts)}
    /\ ret = <<>>
    /\ pc = "start"
    /\ SessionIdle

RunApollo ==
    /\ pc = "start"
    /\ ret' = parse_apollo_data(soup.scripts)
    /\ pc' = "done"
    /\ UNCHANGED <<soup, session>>

SpecApollo == InitApollo /\ [][RunApollo]_vars

\* extract_product_urls on every fetched document of up to MaxMergeAnchors
\* anchors and MaxMergeScripts scripts.
InitMerge ==
    /\ soup \in {Page(a, s) : a \in SeqsUpTo(MergeAnchorInputs, MaxMergeAnchors),
                              s \in SeqsUpTo(MergeScriptInputs, MaxMergeScripts)}
    /\ ret = <<>>
    /\ pc = "start"
    /\ SessionIdle

RunMerge ==
    /\ pc = "start"
    /\ ret' = extract_product_urls(Response("ok", soup))
    /\ pc' = "done"
    /\ UNCHANGED <<soup, session>>

SpecMerge == InitMerge /\ [][RunMerge]_vars


\* --------------------------------------------------------------- properties

EmbeddedOf(page) == parse_apollo_data(page.scripts).db

DomOf(page) == HtmlProducts(page.anchors, <<>>)

\* C1: the result of extract_product_urls is the embedded-state records, in
\* their order, when there is at least one, and the DOM records, in their
\* order, when there is none; with a non-empty embedded state no identifier
\* that only the DOM holds is in the result.
C1_MergeTakesOneSource ==
    pc = "done" =>
        LET E == EmbeddedOf(soup)
            D == DomOf(soup)
        IN  /\ ~ret.raised
            /\ E # <<>> =>
                  /\ ret.ret = E
                  /\ \A i \in 1..Len(ret.ret) :
                        ~(HasKey(D, ret.ret[i].code) /\ ~HasKey(E, ret.ret[i].code))
            /\ E = <<>> => ret.ret = D

C1_Witness ==
    /\ pc = "done"
    /\ EmbeddedOf(soup) # <<>>
    /\ \E i \in 1..Len(DomOf(soup)) : ~HasKey(EmbeddedOf(soup), DomOf(soup)[i].code)
    /\ ret.ret = EmbeddedOf(soup)

\* The identifiers of the anchors that carry the marker, in document order.
FoundCodes(anchors) ==
    LET found == SelectSeq(anchors, IsProductAnchor)
    IN  [i \in 1..Len(found) |-> AnchorCode(found[i])]

\* s without the repetitions of an earlier item.
RECURSIVE FirstOccurrences(_)
FirstOccurrences(s) ==
    IF s = <<>> THEN <<>>
    ELSE LET before == FirstOccurrences(SubSeq(s, 1, Len(s) - 1))
         IN  IF Contains(before, s[Len(s)]) THEN before ELSE Append(before, s[Len(s)])

\* C2: the DOM extraction holds each distinct identifier found after the
\* marker once, in the order of the identifiers' first occurrences.
C2_DomKeysAreFirstOccurrences ==
    pc = "done" => Keys(ret) = FirstOccurrences(FoundCodes(soup.anchors))

C2_Witness ==
    /\ pc = "done"
    /\ FoundCodes(soup.anchors) = << <<"A1">>, <<"A2">>, <<"A1">> >>
    /\ Keys(ret) = << <<"A1">>, <<"A2">> >>

\* C3: the page counter is an integer of at least 1 in every state, and so
\* is the page either direction of set_page_rel would go to from it.
C3_PageAtLeastOne ==
    /\ current_page \in Nat
    /\ current_page >= 1
    /\ NewPage("prev") >= 1
    /\ NewPage("next") >= 1

C3_Witness ==
    /\ act = Action("nav", <<"prev">>, 2)
    /\ current_page = 1
    /\ response.kind = "Timeout"

\* The path of a URL (what precedes the first '?') and its query parameters.
PathOf(u) == IF Contains(u, "?") THEN SubSeq(u, 1, IndexOf(u, "?") - 1) ELSE u

QueryParams(u) ==
    IF Contains(u, "?") THEN split(SubSeq(u, IndexOf(u, "?") + 1, Len(u)), "&") ELSE <<>>

IsPageParam(p) == Len(p) >= 2 /\ p[1] = "page=" /\ \A i \in 2..Len(p) : IsDigit(p[i])

WellRewritten(base, target, page) ==
    /\ PathOf(target) = PathOf(base)
    /\ SelectSeq(QueryParams(target), LAMBDA q : ~IsPageParam(q))
          = SelectSeq(QueryParams(base), LAMBDA q : ~IsPageParam(q))
    /\ SelectSeq(QueryParams(target), IsPageParam) = << <<"page=">> \o Str(page) >>
    /\ Cardinality({i \in 1..Len(target) : target[i] = "?"}) = 1

\* C4: a navigation fetches the stored URL with its page parameters removed
\* and one page parameter of the new counter added, its path and its other
\* query parameters kept, behind a single '?'.
C4_TargetIsBaseWithNewPage ==
    act.kind = "nav" =>
        /\ Len(requested) = 1
        /\ WellRewritten(last_url, requested[1], current_page)

\* C5: after a search or a navigation whose request failed or whose parsing
\* raised, an error message is shown and the product list is empty; no
\* exception ever reaches the caller of extract_product_urls.
C5_ErrorsShownAndEmpty ==
    /\ shown # "Traceback"
    /\ (act.kind \in {"search", "nav"} /\ response.kind # "ok") =>
          /\ shown \in {"Error fetching URL", "An error occurred"}
          /\ products = <<>>

C5_Witness ==
    /\ act.kind = "nav"
    /\ response.kind = "ParserError"
    /\ shown = "An error occurred"
    /\ products = <<>>

\* The first anchor of the document that carries the identifier code.
FirstAnchorOf(anchors, code) ==
    LET found == SelectSeq(anchors, IsProductAnchor)
    IN  found[CHOOSE i \in 1..Len(found) :
                /\ AnchorCode(found[i]) = code
                /\ \A j \in 1..(i-1) : AnchorCode(found[j]) # code]

\* C6: the record the DOM extraction keeps for an identifier is the one
\* built from the first anchor that carries it.
C6_FirstAnchorKept ==
    pc = "done" =>
        \A i \in 1..Len(ret) : ret[i] = AnchorRecord(FirstAnchorOf(soup.anchors, ret[i].code))

\* A block the embedded-state extractor selects that has no .push( or whose
\* payload json.loads rejects.
MalformedBlock(s) ==
    /\ IsApolloScript(s)
    /\ \/ find(s.string, "push") = -1
       \/ ~Loads(ReplaceInSlice(JsonSlice(s.string))).ok

\* C7: no exception leaves the embedded-state extraction, and its output is
\* the output for the document without its malformed blocks.
C7_MalformedBlocksSkipped ==
    pc = "done" =>
        /\ ~ret.exc
        /\ ret.db = parse_apollo_data(SelectSeq(soup.scripts, LAMBDA s : ~MalformedBlock(s))).db

C7_Witness ==
    /\ pc = "done"
    /\ soup.scripts = <<Wrapped(PayloadNested), Wrapped(PayloadGarbage), Wrapped(PayloadList)>>
    /\ Keys(ret.db) = << <<"A1">>, <<"A2">>, <<"A3">> >>
    /\ ~ret.exc

\* C8: the product list held is the extraction of the most recent response
\* (empty before any fetch); after an accepted search the counter is 1,
\* last_url is the URL submitted and that URL was fetched; after a
\* navigation the rewritten URL was fetched.
C8_ProductsAreLastFetch ==
    /\ response.kind = "none" => products = <<>>
    /\ response.kind # "none" => products = extract_product_urls(response).ret
    /\ act.kind = "search" =>
          /\ current_page = 1
          /\ last_url = act.url
          /\ requested = <<act.url>>
    /\ act.kind = "nav" => requested = <<TargetUrl(last_url, current_page)>>

C8_Witness ==
    /\ act.kind = "nav"
    /\ current_page = 2
    /\ response.kind = "ok"
    /\ Keys(products) = << <<"A1">>, <<"A2">> >>

Rejected(url_input) == strip(url_input) = <<>> \/ ~Contains(url_input, MallPrefix)

\* C9: no user action issues more than one GET; an accepted search and a
\* navigation issue one, whatever its outcome; a search with a blank URL or
\* one without the mall prefix issues none and leaves the counter, the URL
\* and the product list as they were, and so does prev at page 1, where
\* set_page_rel computes the page the session is on.
C9_OneGetPerAction ==
    /\ [](/\ Len(requested) <= 1
          /\ act.kind \in {"search", "nav"} => Len(requested) = 1
          /\ current_page = 1 => NewPage("prev") = current_page)
    /\ [][/\ (act'.kind \in {"search", "rejected"} /\ Rejected(act'.url)) =>
                /\ requested' = <<>>
                /\ UNCHANGED <<current_page, last_url, products>>
          /\ (act'.kind \in {"search", "rejected"} /\ ~Rejected(act'.url)) =>
                Len(requested') = 1
          /\ act'.kind = "stay" =>
                /\ requested' = <<>>
                /\ UNCHANGED <<current_page, last_url, products>>]_vars

C9_Witness ==
    /\ act.kind = "search"
    /\ response.kind = "Timeout"
    /\ Len(requested) = 1

\* C10: a navigation happens only from a state whose product list is
\* non-empty; from a state whose list is empty only an accepted search
\* changes the counter, to 1; and after a navigation that came back empty
\* the counter is the page navigated to.
C10_EmptyResultEndsNavigation ==
    /\ [][/\ act'.kind = "nav" => products # <<>>
          /\ (products = <<>> /\ current_page' # current_page) =>
                (act'.kind = "search" /\ current_page' = 1)]_vars
    /\ [](act.kind = "nav" /\ products = <<>> =>
             current_page = IF act.url = <<"next">> THEN act.from + 1 ELSE act.from - 1)

C10_Witness ==
    /\ act = Action("nav", <<"next">>, 1)
    /\ products = <<>>
    /\ current_page = 2
    /\ response.kind = "ok"

====
